---- MODULE Spec2Model ----
(***************************************************************************)
(* GeminiMCPAdapter (gemini_mcp_adapter.py): the session registry, the     *)
(* tool catalog, the call router, the response orchestrator and the        *)
(* streaming wrapper, as a state machine.  A coroutine of the adapter is a *)
(* task; one action is the code a task runs between two awaits.            *)
(***************************************************************************)
EXTENDS Integers, Sequences, FiniteSets, TLC

(***************************************************************************)
(* Bounds                                                                  *)
(***************************************************************************)
\* transports launched over a run (caps the connection serial numbers)
MaxConn == 2
\* chunks one model stream yields
MaxChunks == 3
\* operations started in a run whose coroutines interleave
MaxCalls == 3
\* array element schemas nested in one another in an input schema
MaxDepth == 2

\* coroutines that may be in flight together
Tasks == {1, 2}
\* the single caller of the sequential specification
SeqTasks == {1}

ServerIds == {"server_0", "server_1"}

\* the connect_to_server calls of the runs that take one operation at a
\* time: a server_id and a script path, as <<stem, extension>>
Connects ==
  { <<"server_0", <<"calculator_server", ".py">> >>,
    <<"server_0", <<"readme", ".txt">> >>,
    <<"server_1", <<"weather_server", ".py">> >>,
    <<"server_1", <<"tools_server", ".js">> >> }

ToolNames == {"add", "subtract", "get_current_weather"}
\* a name no server exposes
UnknownTool == "translate"
CallNames == ToolNames \cup {UnknownTool}

ArgSets == { [a |-> 40, b |-> 2], [a |-> 1, b |-> 1] }

Queries == {"What is 40 + 2?"}

\* the function calls the model asks for
FunctionCalls ==
  { [name |-> n, args |-> [a |-> 40, b |-> 2]] : n \in {"add", UnknownTool} }

\* the texts the model answers with
ModelTexts == { << "The answer is 42." >>, << "It is sunny." >> }

\* messages of the faults the transports, sessions and servers raise
Faults == {"connection closed", "server error"}

(***************************************************************************)
(* Python dictionaries and strings                                         *)
(***************************************************************************)
EmptyDict == [k \in {} |-> ""]

\* d[k] = v
Put(d, k, v) == [x \in (DOMAIN d) \cup {k} |-> IF x = k THEN v ELSE d[x]]

\* the dictionary without the keys of ks
Without(d, ks) == [x \in (DOMAIN d) \ ks |-> d[x]]

\* str.endswith on a path <<stem, extension>>
EndsWith(path, ext) == path[Len(path)] = ext

(***************************************************************************)
(* JSON schemas: a dictionary from keys to values; a value is an atom or a *)
(* dictionary (isinstance(v, dict))                                        *)
(***************************************************************************)
Atom(x) == [t |-> "atom", a |-> x]
Dict(f) == [t |-> "dict", v |-> f]
IsDict(x) == x.t = "dict"

\* a cleaning that drops the title as well
TopLevelBanned_Title == {"additionalProperties", "$schema", "title"}

TopLevelBanned == {"additionalProperties", "$schema"}
PropertyBanned == {"default", "examples", "format"}

\* a property stripped in two passes: while it has a format, its default stays
cleaned_prop_Lazy(prop_value) ==
  IF "format" \in DOMAIN prop_value
  THEN Without(prop_value, {"format", "examples"})
  ELSE Without(prop_value, PropertyBanned)

\* the property without the fields Gemini does not support
cleaned_prop_of(prop_value) == Without(prop_value, PropertyBanned)

RECURSIVE _clean_schema(_)
_clean_schema(schema) ==
  LET cleaned == Without(schema, TopLevelBanned)
      CleanProp(prop_value) ==
        IF IsDict(prop_value)
        THEN LET cleaned_prop == cleaned_prop_of(prop_value.v)
             IN  IF "items" \in DOMAIN cleaned_prop /\ IsDict(cleaned_prop["items"])
                 THEN Dict(Put(cleaned_prop, "items",
                               Dict(_clean_schema(cleaned_prop["items"].v))))
                 ELSE Dict(cleaned_prop)
        ELSE prop_value
  IN  IF "properties" \in DOMAIN cleaned
      THEN LET props == cleaned["properties"].v
           IN  Put(cleaned, "properties",
                   Dict([p \in DOMAIN props |-> CleanProp(props[p])]))
      ELSE cleaned

(***************************************************************************)
(* The tool servers: what list_tools and call_tool answer                  *)
(***************************************************************************)
NumberProp == Dict([k \in {"type", "default"} |->
                     IF k = "type" THEN Atom("number") ELSE Atom("0")])
StringProp == Dict([k \in {"type", "format"} |->
                     IF k = "type" THEN Atom("string") ELSE Atom("city")])

ArithSchema ==
  [k \in {"type", "properties", "additionalProperties"} |->
     CASE k = "type" -> Atom("object")
       [] k = "properties" -> Dict([p \in {"a", "b"} |-> NumberProp])
       [] OTHER -> Atom("false")]

CitySchema ==
  [k \in {"type", "properties", "$schema"} |->
     CASE k = "type" -> Atom("object")
       [] k = "properties" -> Dict([p \in {"city"} |-> StringProp])
       [] OTHER -> Atom("draft-07")]

(***************************************************************************)
(* Input schemas of _clean_schema, up to MaxDepth levels of array element  *)
(* schemas nested in one another                                           *)
(***************************************************************************)
\* the value a schema holds under a top-level key
TopValue(k) ==
  CASE k = "type" -> Atom("object")
    [] k = "additionalProperties" -> Atom("false")
    [] k = "$schema" -> Atom("draft-07")
    [] OTHER -> Atom(k)

\* the keys a schema has beside its properties
TopKeySets ==
  { {"type"},
    {"type", "additionalProperties", "title"},
    {"type", "$schema", "default"} }

\* a property that nests an object, not an array
ObjectProp ==
  Dict([k \in {"type", "properties", "examples"} |->
          CASE k = "type" -> Atom("object")
            [] k = "properties" -> Dict([p \in {"x"} |-> NumberProp])
            [] OTHER -> Atom("e")])

\* a property with every field the cleaning removes
FullProp ==
  Dict([k \in {"type", "default", "examples", "format"} |->
          IF k = "type" THEN Atom("string") ELSE Atom(k)])

\* an array property whose element schema is items
ArrayProp(items) ==
  Dict([k \in {"type", "items", "default"} |->
          CASE k = "type" -> Atom("array")
            [] k = "items" -> items
            [] OTHER -> Atom("0")])

\* property values without an element schema; the first is not a dictionary
LeafProps == {Atom("true"), NumberProp, StringProp, FullProp, ObjectProp}

RECURSIVE SchemasAt(_)
SchemasAt(d) ==
  LET flat == {[k \in K |-> TopValue(k)] : K \in TopKeySets}
  IN  IF d = 0
      THEN flat
      ELSE LET items == {Atom("any")} \cup {Dict(s) : s \in SchemasAt(d - 1)}
               props == LeafProps \cup {ArrayProp(i) : i \in items}
           IN  flat \cup
               { [k \in K \cup {"properties"} |->
                    IF k = "properties"
                    THEN Dict([p \in {"a", "format"} |->
                                 IF p = "a" THEN v ELSE StringProp])
                    ELSE TopValue(k)] : K \in TopKeySets, v \in props }

Schemas == SchemasAt(MaxDepth)

\* an MCP tool as list_tools reports it
McpTool(name, description, schema) ==
  [name |-> name, description |-> description, inputSchema |-> schema]

\* response.tools of the server a script runs
ServerTools(path) ==
  CASE path[1] = "calculator_server" ->
         << McpTool("add", "Add two numbers together.", ArithSchema),
            McpTool("subtract", "Subtract second number from the first.", ArithSchema) >>
    [] path[1] = "weather_server" ->
         << McpTool("get_current_weather", "Get the current weather for a city.", CitySchema) >>
    [] path[1] = "tools_server" ->
         << McpTool("add", "Sum of two values.", ArithSchema) >>
    [] OTHER -> << >>

\* the content items a server's tool returns
\* the f-string's text of a float parameter holding a whole number
FloatStr(x) == << ToString(x), ".0" >>

ToolContent(name, args) ==
  CASE name = "add" ->
         << [text |-> FloatStr(args.a) \o << " + " >> \o FloatStr(args.b)
                      \o << " = " >> \o FloatStr(args.a + args.b)] >>
    [] name = "subtract" ->
         << [text |-> FloatStr(args.a) \o << " - " >> \o FloatStr(args.b)
                      \o << " = " >> \o FloatStr(args.a - args.b)] >>
    [] OTHER -> << [text |-> << "Could not find coordinates for city" >>] >>

(***************************************************************************)
(* The texts call_tool and process_query return, as token sequences        *)
(***************************************************************************)
NotFoundText_NoName(tool_name) == << "Error: Tool not found in any connected server" >>

NotFoundText(tool_name) ==
  << "Error: Tool '", tool_name, "' not found in any connected server" >>

NotConnectedText(server_id, tool_name) ==
  << "Error: Server '", server_id, "' for tool '", tool_name, "' is not connected" >>

EmptyResultText == << "Tool executed successfully but returned no content." >>

CallErrorText(tool_name, msg) == << "Error calling tool ", tool_name, ": ", msg >>

NoSessionsText_NoResponse == << "No response from the model." >>

NoSessionsText ==
  << "Not connected to any MCP servers. Connect to at least one server first." >>

NoResponseText == << "No response from the model." >>

(***************************************************************************)
(* State                                                                   *)
(***************************************************************************)
VARIABLES
  sessions,        \* self.sessions: the dictionary's entries in insertion order
  tool_to_server,  \* self.tool_to_server
  tools_cache,     \* self.tools_cache
  exit_stack,      \* self.exit_stack: the resources entered, oldest first
  nacq,            \* resources acquired so far (stamps the next one)
  config_tools,    \* the tools of the caller's reusable config object
  ncalls,          \* operations started so far, counted where they interleave
  task             \* per coroutine: where it is and its locals

vars == << sessions, tool_to_server, tools_cache, exit_stack, nacq,
           config_tools, ncalls, task >>

adapter == << sessions, tool_to_server, tools_cache, exit_stack >>

(***************************************************************************)
(* self.sessions: a dict keeps its entries in insertion order.  An         *)
(* iterator over it remembers how many entries it has passed and the size  *)
(* the dict had; CPython leaves a dead entry where a key was deleted, so a *)
(* deletion behind an iterator does not move what the iterator yields      *)
(* next: here the entry is dropped and the iterators past it step back.    *)
(***************************************************************************)
LiveIds(ss) == { ss[i].id : i \in 1..Len(ss) }
NumLive(ss) == Len(ss)
SlotOf(ss, sid) == CHOOSE i \in 1..Len(ss) : ss[i].id = sid
SessionOf(ss, sid) == ss[SlotOf(ss, sid)].sess

\* self.sessions[server_id] = session
SetSession(ss, sid, s) ==
  IF sid \in LiveIds(ss)
  THEN [ss EXCEPT ![SlotOf(ss, sid)].sess = s]
  ELSE Append(ss, [id |-> sid, sess |-> s])

\* del self.sessions[server_id]
DelSession(ss, sid) ==
  SubSeq(ss, 1, SlotOf(ss, sid) - 1) \o SubSeq(ss, SlotOf(ss, sid) + 1, Len(ss))

\* the entry the iterator yields after it has passed pos entries, 0 when it
\* is exhausted
NextLive(ss, pos) == IF pos < Len(ss) THEN pos + 1 ELSE 0

\* a task's record after another task deleted entry i of self.sessions
AfterDel(tk, i) ==
  IF tk.pc = "r_list" /\ tk.it_pos >= i THEN [tk EXCEPT !.it_pos = @ - 1] ELSE tk

\* a session is usable while the exit stack still holds it
SessionOpen(s) ==
  \E i \in 1..Len(exit_stack) :
     exit_stack[i].kind = "session" /\ exit_stack[i].conn = s.conn

(***************************************************************************)
(* A task's record                                                         *)
(***************************************************************************)
NoSession == [conn |-> 0, path |-> << >>]
NoResource == [kind |-> "none", conn |-> 0, acq |-> 0, command |-> ""]
NoResult == [kind |-> "none", val |-> << >>]
NoCall == [name |-> "", args |-> << >>]
NoSnapshot ==
  [sessions |-> << >>, tool_to_server |-> EmptyDict, tools_cache |-> << >>,
   exit_stack |-> << >>]

Returned(v) == [kind |-> "return", val |-> v]
Raised(type, msg) == [kind |-> "raise", val |-> << type >> \o msg]

IdleTask ==
  [ pc |-> "idle", op |-> "none", res |-> NoResult, pre |-> NoSnapshot,
    sid |-> "", path |-> << >>, sess |-> NoSession,
    it_pos |-> 0, it_len |-> 0, all_tools |-> << >>, cur |-> "",
    cur_sess |-> NoSession,
    server_tools |-> << >>,
    held |-> NoResource, pending |-> "", released |-> << >>,
    first_fail |-> 0, again |-> FALSE, reply |-> << >>,
    response |-> [candidates |-> << >>],
    name |-> "", args |-> << >>, query |-> "",
    invoked |-> << >>, fault |-> "", calls |-> << >>, final_text |-> << >>,
    requests |-> << >>, fc |-> NoCall,
    inp |-> << >>, out |-> << >>, chunk |-> << >>,
    schema |-> EmptyDict, cleaned |-> EmptyDict,
    servers |-> << >>, outcomes |-> << >> ]

Snapshot ==
  [sessions |-> sessions, tool_to_server |-> tool_to_server,
   tools_cache |-> tools_cache, exit_stack |-> exit_stack]

\* a caller may start an operation on a task that runs none
Free(t) == task[t].pc \in {"idle", "done"}

\* the record of a task that starts operation op
Begin(op) == [IdleTask EXCEPT !.op = op, !.pre = Snapshot]

\* the record of a task whose operation ends with result r
Finish(tk, r) ==
  [tk EXCEPT !.pc = "done", !.res = r, !.it_pos = 0, !.it_len = 0,
             !.all_tools = << >>, !.cur = "", !.cur_sess = NoSession,
             !.held = NoResource,
             !.pending = "", !.chunk = << >>]

Init ==
  /\ sessions = << >>
  /\ tool_to_server = EmptyDict
  /\ tools_cache = << >>
  /\ exit_stack = << >>
  /\ nacq = 0
  /\ config_tools = << >>
  /\ ncalls = 0
  /\ task = [t \in Tasks |-> IdleTask]

(***************************************************************************)
(* What an awaited call on a transport, a session or a server does: it     *)
(* completes, or raises a fault                                            *)
(***************************************************************************)
Outcomes == {"ok", "connection closed"}

Fault(out) == Raised("Exception", << out >>)

(***************************************************************************)
(* _get_server_tools, after session.list_tools() has answered              *)
(***************************************************************************)
ToolNamesOf(tools) == { tools[i].name : i \in 1..Len(tools) }

\* as RegisterTools, but a name that is already mapped keeps its server
RegisterTools_KeepFirst(t2s, tools, server_id) ==
  [x \in (DOMAIN t2s) \cup ToolNamesOf(tools) |->
     IF x \in DOMAIN t2s THEN t2s[x] ELSE server_id]

\* self.tool_to_server[tool.name] = server_id, for each tool of the response
RegisterTools(t2s, tools, server_id) ==
  [x \in (DOMAIN t2s) \cup ToolNamesOf(tools) |->
     IF x \in ToolNamesOf(tools) THEN server_id ELSE t2s[x]]

\* the Gemini function declarations of the response's tools
GeminiTools(tools) ==
  [i \in 1..Len(tools) |->
     [name |-> tools[i].name, description |-> tools[i].description,
      parameters |-> _clean_schema(tools[i].inputSchema)]]

(***************************************************************************)
(* refresh_tools_cache: the loop over self.sessions, from the entry after  *)
(* pos up to the next await (or to the end of the loop).  Gives the task's *)
(* next record and the next self.tools_cache.                              *)
(***************************************************************************)
\* as RefreshResult, but connect_to_server returns the refreshed catalog
RefreshResult_Catalog(tk, all_tools) ==
  CASE tk.op \in {"connect", "refresh"} -> Returned(all_tools)
    [] OTHER -> Returned(<< >>)

\* what the operation that ran the refresh returns
RefreshResult(tk, all_tools) ==
  CASE tk.op = "connect" -> Returned(tk.server_tools)
    [] tk.op = "refresh" -> Returned(all_tools)
    [] OTHER -> Returned(<< >>)

\* as NewAllTools, but the loop extends the published list
NewAllTools_Published == tools_cache

\* all_tools = [] before the loop
NewAllTools == << >>

RefreshNext(tk, ss, pos, len, all_tools) ==
  IF NumLive(ss) # len
  THEN [task |-> Finish(tk, Raised("RuntimeError",
                               << "dictionary changed size during iteration" >>)),
        cache |-> tools_cache]
  ELSE IF NextLive(ss, pos) = 0
  THEN [task |-> Finish(tk, RefreshResult(tk, all_tools)), cache |-> all_tools]
  ELSE [task |-> [tk EXCEPT !.pc = "r_list", !.it_pos = NextLive(ss, pos),
                            !.it_len = len, !.all_tools = all_tools,
                            !.cur = ss[NextLive(ss, pos)].id,
                            !.cur_sess = ss[NextLive(ss, pos)].sess],
        cache |-> tools_cache]

(***************************************************************************)
(* connect_to_server                                                       *)
(***************************************************************************)
DuplicateId_Unchecked(server_id) == FALSE

\* server_id in self.sessions
DuplicateId(server_id) == server_id \in LiveIds(sessions)

\* as SupportedScript, but any script is launched
SupportedScript_Any(server_script_path) == TRUE

\* is_python or is_js
SupportedScript(server_script_path) ==
  EndsWith(server_script_path, ".py") \/ EndsWith(server_script_path, ".js")

ConnectCall(t, server_id, server_script_path) ==
  /\ Free(t)
  /\ LET tk == [Begin("connect") EXCEPT !.sid = server_id,
                                        !.path = server_script_path]
     IN  IF DuplicateId(server_id)
         THEN task' = [task EXCEPT ![t] = Finish(tk, Raised("ValueError",
                         << "Server ID '", server_id, "' is already in use" >>))]
         ELSE IF ~SupportedScript(server_script_path)
         THEN task' = [task EXCEPT ![t] = Finish(tk, Raised("ValueError",
                         << "Server script must be a .py or .js file" >>))]
         ELSE /\ nacq + 2 <= 2 * MaxConn
              /\ task' = [task EXCEPT ![t] = [tk EXCEPT !.pc = "c_transport"]]
  /\ UNCHANGED << sessions, tool_to_server, tools_cache, exit_stack, nacq,
                  config_tools >>

\* await self.exit_stack.enter_async_context(stdio_client(server_params))
ConnectTransport(t) ==
  /\ task[t].pc = "c_transport"
  /\ \E out \in Outcomes :
       LET tk == task[t]
           command == IF EndsWith(tk.path, ".py") THEN "python" ELSE "node"
       IN  IF out = "ok"
           THEN /\ exit_stack' = Append(exit_stack,
                     [kind |-> "transport", conn |-> nacq + 1, acq |-> nacq + 1,
                      command |-> command])
                /\ nacq' = nacq + 1
                /\ task' = [task EXCEPT ![t] =
                     [tk EXCEPT !.pc = "c_session",
                                !.sess = [conn |-> nacq + 1, path |-> tk.path]]]
           ELSE /\ task' = [task EXCEPT ![t] = Finish(tk, Fault(out))]
                /\ UNCHANGED << exit_stack, nacq >>
  /\ UNCHANGED << sessions, tool_to_server, tools_cache, config_tools >>

\* await self.exit_stack.enter_async_context(ClientSession(read, write))
ConnectSession(t) ==
  /\ task[t].pc = "c_session"
  /\ \E out \in Outcomes :
       LET tk == task[t]
       IN  IF out = "ok"
           THEN /\ exit_stack' = Append(exit_stack,
                     [kind |-> "session", conn |-> tk.sess.conn, acq |-> nacq + 1,
                      command |-> ""])
                /\ nacq' = nacq + 1
                /\ task' = [task EXCEPT ![t] = [tk EXCEPT !.pc = "c_init"]]
           ELSE /\ task' = [task EXCEPT ![t] = Finish(tk, Fault(out))]
                /\ UNCHANGED << exit_stack, nacq >>
  /\ UNCHANGED << sessions, tool_to_server, tools_cache, config_tools >>

\* await session.initialize(); self.sessions[server_id] = session; then
\* _get_server_tools up to its await of session.list_tools()
ConnectInit(t) ==
  /\ task[t].pc = "c_init"
  /\ \E out \in Outcomes :
       LET tk == task[t]
       IN  IF out = "ok"
           THEN /\ SessionOpen(tk.sess)
                /\ sessions' = SetSession(sessions, tk.sid, tk.sess)
                /\ task' = [task EXCEPT ![t] = [tk EXCEPT !.pc = "c_list"]]
           ELSE /\ task' = [task EXCEPT ![t] = Finish(tk, Fault(out))]
                /\ UNCHANGED sessions
  /\ UNCHANGED << tool_to_server, tools_cache, exit_stack, nacq,
                  config_tools >>

\* the new server's list_tools() answers: register its tools, then
\* refresh_tools_cache up to its first await
ConnectList(t) ==
  /\ task[t].pc = "c_list"
  /\ \E out \in Outcomes :
       LET tk == task[t]
           tools == ServerTools(tk.sess.path)
           tk1 == [tk EXCEPT !.server_tools = GeminiTools(tools)]
           nxt == RefreshNext(tk1, sessions, 0, NumLive(sessions), NewAllTools)
       IN  IF out = "ok"
           THEN /\ SessionOpen(tk.sess)
                /\ tool_to_server' = RegisterTools(tool_to_server, tools, tk.sid)
                /\ tools_cache' = nxt.cache
                /\ task' = [task EXCEPT ![t] = nxt.task]
           ELSE /\ task' = [task EXCEPT ![t] = Finish(tk, Fault(out))]
                /\ UNCHANGED << tool_to_server, tools_cache >>
  /\ UNCHANGED << sessions, exit_stack, nacq, config_tools >>

(***************************************************************************)
(* refresh_tools_cache                                                     *)
(***************************************************************************)
RefreshCall(t) ==
  /\ Free(t)
  /\ LET again == /\ task[t].op = "refresh" /\ task[t].pc = "done"
                  /\ task[t].res.kind = "return"
         nxt == RefreshNext([Begin("refresh") EXCEPT !.again = again], sessions,
                            0, NumLive(sessions), NewAllTools)
     IN  /\ tools_cache' = nxt.cache
         /\ task' = [task EXCEPT ![t] = nxt.task]
  /\ UNCHANGED << sessions, tool_to_server, exit_stack, nacq,
                  config_tools >>

\* list_tools() of the server the loop is at answers: register its tools,
\* extend all_tools, and go on with the loop
RefreshList(t) ==
  /\ task[t].pc = "r_list"
  /\ \E out \in Outcomes :
       LET tk == task[t]
           tools == ServerTools(tk.cur_sess.path)
           nxt == RefreshNext(tk, sessions, tk.it_pos, tk.it_len,
                              tk.all_tools \o GeminiTools(tools))
       IN  IF out = "ok"
           THEN /\ SessionOpen(tk.cur_sess)
                /\ tool_to_server' = RegisterTools(tool_to_server, tools, tk.cur)
                /\ tools_cache' = nxt.cache
                /\ task' = [task EXCEPT ![t] = nxt.task]
           ELSE /\ task' = [task EXCEPT ![t] = Finish(tk, Fault(out))]
                /\ UNCHANGED << tool_to_server, tools_cache >>
  /\ UNCHANGED << sessions, exit_stack, nacq, config_tools >>

(***************************************************************************)
(* disconnect_server                                                       *)
(***************************************************************************)
ToolsOf_None(t2s, server_id) == { }

\* the names tools_to_remove collects
ToolsOf(t2s, server_id) == { n \in DOMAIN t2s : t2s[n] = server_id }

DisconnectCall(t, server_id) ==
  /\ Free(t)
  /\ LET tk == [Begin("disconnect") EXCEPT !.sid = server_id]
     IN  IF server_id \notin LiveIds(sessions)
         THEN /\ task' = [task EXCEPT ![t] = Finish(tk, Returned(<< >>))]
              /\ UNCHANGED << sessions, tool_to_server, tools_cache >>
         ELSE LET ss == DelSession(sessions, server_id)
                  nxt == RefreshNext(tk, ss, 0, NumLive(ss), NewAllTools)
              IN  /\ tool_to_server' =
                       Without(tool_to_server, ToolsOf(tool_to_server, server_id))
                  /\ sessions' = ss
                  /\ tools_cache' = nxt.cache
                  /\ task' = [u \in Tasks |->
                       IF u = t THEN nxt.task
                       ELSE AfterDel(task[u], SlotOf(sessions, server_id))]
  /\ UNCHANGED << exit_stack, nacq, config_tools >>

(***************************************************************************)
(* cleanup: AsyncExitStack.aclose() pops the resources one at a time and   *)
(* awaits each exit; a failing exit is remembered and raised at the end    *)
(***************************************************************************)
TopOf_Oldest(stack) == stack[1]

\* the resource aclose() pops next
TopOf(stack) == stack[Len(stack)]
Pop(stack) == SubSeq(stack, 1, Len(stack) - 1)

CleanupCall(t) ==
  /\ Free(t)
  /\ IF exit_stack = << >>
     THEN /\ sessions' = << >>
          /\ tool_to_server' = EmptyDict
          /\ tools_cache' = << >>
          /\ task' = [task EXCEPT ![t] = Finish(Begin("cleanup"), Returned(<< >>))]
          /\ UNCHANGED exit_stack
     ELSE /\ exit_stack' = Pop(exit_stack)
          /\ task' = [task EXCEPT ![t] =
               [Begin("cleanup") EXCEPT !.pc = "x_release", !.held = TopOf(exit_stack)]]
          /\ UNCHANGED << sessions, tool_to_server, tools_cache >>
  /\ UNCHANGED << nacq, config_tools >>

\* as Remaining, but a failing exit ends the unwinding
Remaining_StopOnFailure(stack, out) == IF out # "ok" THEN << >> ELSE stack

\* the resources aclose() goes on to exit after an exit ended with out
Remaining(stack, out) == stack

\* the exit of the popped resource ends; pop the next one, or finish
CleanupRelease(t) ==
  /\ task[t].pc = "x_release"
  /\ \E out \in Outcomes :
       LET pending == IF out # "ok" THEN out ELSE task[t].pending
           tk == [task[t] EXCEPT !.released = Append(@, task[t].held),
                                 !.first_fail =
                                    IF out # "ok" /\ @ = 0
                                    THEN Len(task[t].released) + 1 ELSE @]
       IN  /\ IF Remaining(exit_stack, out) # << >>
              THEN /\ exit_stack' = Pop(exit_stack)
                   /\ task' = [task EXCEPT ![t] =
                        [tk EXCEPT !.held = TopOf(exit_stack), !.pending = pending]]
                   /\ UNCHANGED << sessions, tool_to_server, tools_cache >>
              ELSE IF pending # ""
              THEN /\ task' = [task EXCEPT ![t] = Finish(tk, Fault(pending))]
                   /\ UNCHANGED << sessions, tool_to_server, tools_cache, exit_stack >>
              ELSE /\ sessions' = << >>
                   /\ tool_to_server' = EmptyDict
                   /\ tools_cache' = << >>
                   /\ task' = [task EXCEPT ![t] = Finish(tk, Returned(<< >>))]
                   /\ UNCHANGED exit_stack
  /\ UNCHANGED << nacq, config_tools >>

(***************************************************************************)
(* call_tool                                                               *)
(***************************************************************************)
\* what the server behind a session answers to call_tool
ServerReply(path, name, args) ==
  IF name \in ToolNamesOf(ServerTools(path))
  THEN [i \in 1..Len(ToolContent(name, args)) |->
          [type |-> "text", text |-> ToolContent(name, args)[i].text]]
  ELSE << [type |-> "text", text |-> << "Unknown tool: ", name >>] >>

\* the results session.call_tool may hand back, and the faults it may raise
InvokeOutcomes(sess, name, args) ==
  { [raised |-> FALSE, content |-> c, msg |-> ""] :
      c \in IF SessionOpen(sess)
            THEN { ServerReply(sess.path, name, args), << >>,
                   << [type |-> "image", text |-> << >>] >> }
            ELSE { } }
  \cup { [raised |-> TRUE, content |-> << >>, msg |-> m] : m \in Faults }

ResultText_NoMessage(tool_name, outcome) ==
  IF outcome.raised
  THEN << "Error calling tool ", tool_name >>
  ELSE IF Len(outcome.content) > 0 /\ outcome.content[1].type = "text"
  THEN outcome.content[1].text
  ELSE EmptyResultText

\* the body of the try block, and its except clause
ResultText(tool_name, outcome) ==
  IF outcome.raised
  THEN CallErrorText(tool_name, outcome.msg)
  ELSE IF Len(outcome.content) > 0
  THEN IF outcome.content[1].type = "text"
       THEN outcome.content[1].text
       ELSE CallErrorText(tool_name,
                          "'ImageContent' object has no attribute 'text'")
  ELSE EmptyResultText

\* types.Tool(function_declarations=[func_decl]) for each declaration
ToolObjects(decls) ==
  [i \in 1..Len(decls) |-> [function_declarations |-> << decls[i] >>]]

\* as Deliver, but the follow-up request carries the catalog's tools
Deliver_ToolsAgain(tk, r, final_text) ==
  LET tk1 == [tk EXCEPT !.calls = Append(@, [name |-> tk.name, args |-> tk.args,
                                            result |-> r])]
      tool_name == tk.fc.name
      follow_up_query ==
        << "I asked: ", tk.query, "\n\nThe tool ", tool_name, " returned: " >>
        \o r \o << "\n\nCan you explain this result?" >>
      follow_up == [contents |-> follow_up_query,
                    tools |-> ToolObjects(tools_cache), temperature |-> "0.2"]
  IN  CASE tk.op = "process_query" ->
             Finish([tk1 EXCEPT !.requests = Append(@, follow_up),
                                !.final_text = final_text],
                    Returned(<< "[Tool Used: ", tool_name, "]\n\n" >> \o r
                             \o << "\n\n" >> \o final_text))
        [] tk.op = "stream" ->
             [tk1 EXCEPT !.pc = "g_next",
                         !.out = Append(@, [tk.chunk EXCEPT !._text = r]),
                         !.chunk = << >>, !.cur_sess = NoSession]
        [] OTHER -> Finish(tk1, Returned(r))

\* as Deliver, but the streaming wrapper yields the chunk as it came
Deliver_NoReplace(tk, r, final_text) ==
  LET tk1 == [tk EXCEPT !.calls = Append(@, [name |-> tk.name, args |-> tk.args,
                                            result |-> r])]
  IN  CASE tk.op = "stream" ->
             [tk1 EXCEPT !.pc = "g_next", !.out = Append(@, tk.chunk),
                         !.chunk = << >>, !.cur_sess = NoSession]
        [] OTHER -> Finish(tk1, Returned(r))

\* as Deliver, but process_query returns the tool's text with no follow-up
Deliver_NoFollowUp(tk, r, final_text) ==
  LET tk1 == [tk EXCEPT !.calls = Append(@, [name |-> tk.name, args |-> tk.args,
                                            result |-> r])]
  IN  CASE tk.op = "stream" ->
             [tk1 EXCEPT !.pc = "g_next",
                         !.out = Append(@, [tk.chunk EXCEPT !._text = r]),
                         !.chunk = << >>, !.cur_sess = NoSession]
        [] OTHER -> Finish(tk1, Returned(r))

\* the caller of call_tool goes on with the text r: call_tool returns it;
\* process_query sends the follow-up request and returns the combined text;
\* the streaming wrapper writes it into the chunk and yields the chunk
Deliver(tk, r, final_text) ==
  LET tk1 == [tk EXCEPT !.calls = Append(@, [name |-> tk.name, args |-> tk.args,
                                            result |-> r])]
      tool_name == tk.fc.name
      follow_up_query ==
        << "I asked: ", tk.query, "\n\nThe tool ", tool_name, " returned: " >>
        \o r \o << "\n\nCan you explain this result?" >>
      follow_up == [contents |-> follow_up_query, tools |-> << >>,
                    temperature |-> "0.2"]
  IN  CASE tk.op = "process_query" ->
             Finish([tk1 EXCEPT !.requests = Append(@, follow_up),
                                !.final_text = final_text],
                    Returned(<< "[Tool Used: ", tool_name, "]\n\n" >> \o r
                             \o << "\n\n" >> \o final_text))
        [] tk.op = "stream" ->
             [tk1 EXCEPT !.pc = "g_next",
                         !.out = Append(@, [tk.chunk EXCEPT !._text = r]),
                         !.chunk = << >>, !.cur_sess = NoSession]
        [] OTHER -> Finish(tk1, Returned(r))

\* as OwnerOf, but every call goes to the first connected server
OwnerOf_First(tool_name) ==
  IF sessions # << >> THEN sessions[1].id ELSE tool_to_server[tool_name]

\* server_id = self.tool_to_server[tool_name]
OwnerOf(tool_name) == tool_to_server[tool_name]

\* call_tool up to its await of session.call_tool (or to its return)
CallToolBegin(tk, tool_name, arguments, final_text) ==
  LET tk1 == [tk EXCEPT !.name = tool_name, !.args = arguments]
  IN  IF tool_name \notin DOMAIN tool_to_server
      THEN Deliver(tk1, NotFoundText(tool_name), final_text)
      ELSE IF OwnerOf(tool_name) \notin LiveIds(sessions)
      THEN Deliver(tk1, NotConnectedText(OwnerOf(tool_name), tool_name),
                   final_text)
      ELSE LET session == SessionOf(sessions, OwnerOf(tool_name))
           IN  [tk1 EXCEPT !.pc = "t_invoke", !.cur_sess = session,
                           !.invoked = Append(@, [conn |-> session.conn,
                                                  name |-> tool_name,
                                                  args |-> arguments])]

CallToolCall(t, tool_name, arguments) ==
  /\ Free(t)
  /\ task' = [task EXCEPT ![t] =
                CallToolBegin(Begin("call_tool"), tool_name, arguments, << >>)]
  /\ UNCHANGED << sessions, tool_to_server, tools_cache, exit_stack, nacq,
                  config_tools >>

\* session.call_tool answers or raises
CallToolReply(t) ==
  /\ task[t].pc = "t_invoke"
  /\ \E outcome \in InvokeOutcomes(task[t].cur_sess, task[t].name, task[t].args),
        final_text \in IF task[t].op = "process_query" THEN ModelTexts ELSE {<< >>} :
       task' = [task EXCEPT ![t] =
                  Deliver([task[t] EXCEPT !.fault = outcome.msg,
                                          !.reply = outcome.content],
                          ResultText(task[t].name, outcome), final_text)]
  /\ UNCHANGED << sessions, tool_to_server, tools_cache, exit_stack, nacq,
                  config_tools >>

(***************************************************************************)
(* process_query                                                           *)
(***************************************************************************)
TextPart(x) == [has_call |-> FALSE, function_call |-> NoCall, text |-> x]
CallPart(fc) == [has_call |-> TRUE, function_call |-> fc, text |-> << >>]
Candidate(parts) == [content |-> [present |-> TRUE, parts |-> parts]]

\* the responses the model may give
Responses ==
  { [candidates |-> << >>],
    [candidates |-> << [content |-> [present |-> FALSE, parts |-> << >>]] >>],
    [candidates |-> << Candidate(<< >>) >>] }
  \cup { [candidates |-> << Candidate(<< TextPart(x) >>) >>] : x \in ModelTexts }
  \cup { [candidates |-> << Candidate(<< TextPart(<< "The sum " >>),
                                         TextPart(<< "is 42." >>) >>) >>] }
  \cup { [candidates |-> << Candidate(<< CallPart(fc) >>) >>] : fc \in FunctionCalls }

\* the first content part of the response is a function call
HasCall(response) ==
  /\ response.candidates # << >>
  /\ response.candidates[1].content.parts # << >>
  /\ response.candidates[1].content.parts[1].has_call

\* response.text: the text parts of the first candidate, joined
RECURSIVE JoinText(_)
JoinText(parts) ==
  IF parts = << >> THEN << >>
  ELSE (IF parts[1].has_call THEN << >> ELSE parts[1].text) \o JoinText(Tail(parts))

\* as ResponseText, but only the first part's text
ResponseText_FirstPart(response) == response.candidates[1].content.parts[1].text

ResponseText(response) == JoinText(response.candidates[1].content.parts)

ProcessQueryCall(t, query) ==
  /\ Free(t)
  /\ \E response \in Responses :
     \E final_text \in IF HasCall(response) THEN ModelTexts ELSE {<< >>} :
       LET tk == [Begin("process_query") EXCEPT !.query = query]
           request == [contents |-> << query >>,
                       tools |-> ToolObjects(tools_cache), temperature |-> "0.2"]
           tk1 == [tk EXCEPT !.requests = << request >>, !.response = response]
       IN  task' = [task EXCEPT ![t] =
             IF NumLive(sessions) = 0
             THEN Finish(tk, Returned(NoSessionsText))
             ELSE IF response.candidates = << >>
             THEN Finish(tk1, Returned(NoResponseText))
             ELSE IF ~response.candidates[1].content.present
             THEN Finish(tk1, Raised("AttributeError",
                           << "'NoneType' object has no attribute 'parts'" >>))
             ELSE IF response.candidates[1].content.parts = << >>
             THEN Finish(tk1, Returned(NoResponseText))
             ELSE IF response.candidates[1].content.parts[1].has_call
             THEN LET function_call ==
                        response.candidates[1].content.parts[1].function_call
                  IN  CallToolBegin([tk1 EXCEPT !.fc = function_call],
                                    function_call.name, function_call.args,
                                    final_text)
             ELSE Finish(tk1, Returned(ResponseText(response)))]
  /\ UNCHANGED << sessions, tool_to_server, tools_cache, exit_stack, nacq,
                  config_tools >>

(***************************************************************************)
(* attach_adapter: wrapped_generate_content_stream                         *)
(***************************************************************************)
\* the config the caller passes: none, a new one without tools, a new one
\* with the caller's own tool, or the config object the caller reuses
ConfigKinds == {"none", "fresh", "caller", "shared"}

CallerTool ==
  [function_declarations |->
     << [name |-> "lookup", description |-> "A tool of the caller.",
         parameters |-> EmptyDict] >>]

\* config.tools when the wrapper is entered
ConfigTools(cfg) ==
  CASE cfg = "caller" -> << CallerTool >>
    [] cfg = "shared" -> config_tools
    [] OTHER -> << >>

\* config.tools when the request is sent
MergedTools(cfg, adapter_tools) ==
  IF cfg # "none" /\ ConfigTools(cfg) # << >>
  THEN ConfigTools(cfg) \o adapter_tools
  ELSE adapter_tools

\* the chunks the model's stream may yield as its i-th
\* (_text is the attribute the wrapper writes the tool result to; the model's
\* stream leaves it unset)
PlainChunk(i) ==
  [text |-> << "part ", ToString(i) >>, function_calls |-> << >>, _text |-> << >>]
CallChunk(fc) == [text |-> << >>, function_calls |-> << fc >>, _text |-> << >>]
Chunks(i) == { PlainChunk(i) } \cup { CallChunk(fc) : fc \in FunctionCalls }

StreamCall(t, cfg, query) ==
  /\ Free(t)
  /\ LET adapter_tools == ToolObjects(tools_cache)
         request == [contents |-> << query >>,
                     tools |-> MergedTools(cfg, adapter_tools),
                     temperature |-> ""]
     IN  /\ task' = [task EXCEPT ![t] =
               [Begin("stream") EXCEPT !.pc = "g_next", !.query = query,
                                       !.requests = << request >>]]
         /\ config_tools' = IF cfg = "shared" THEN MergedTools(cfg, adapter_tools)
                            ELSE config_tools
  /\ UNCHANGED << sessions, tool_to_server, tools_cache, exit_stack, nacq >>

\* as Handles, but only for the first function call of the stream
Handles_FirstOnly(tk, chunk) ==
  /\ chunk.function_calls # << >>
  /\ chunk.function_calls[1].name \in DOMAIN tool_to_server
  /\ tk.calls = << >>

\* the wrapper runs the tool round trip for this chunk
Handles(tk, chunk) ==
  /\ chunk.function_calls # << >>
  /\ chunk.function_calls[1].name \in DOMAIN tool_to_server

\* the model's stream yields its next chunk, or ends
StreamNext(t) ==
  /\ task[t].pc = "g_next"
  /\ LET tk == task[t]
         i == Len(tk.inp) + 1
     IN  \/ task' = [task EXCEPT ![t] = Finish(tk, Returned(<< >>))]
         \/ /\ i <= MaxChunks
            /\ \E chunk \in Chunks(i) :
                 LET tk1 == [tk EXCEPT !.inp = Append(@, chunk)]
                 IN  task' = [task EXCEPT ![t] =
                       IF Handles(tk, chunk)
                       THEN LET function_call == chunk.function_calls[1]
                            IN  CallToolBegin([tk1 EXCEPT !.chunk = chunk,
                                                          !.fc = function_call],
                                              function_call.name,
                                              function_call.args, << >>)
                       ELSE [tk1 EXCEPT !.out = Append(@, chunk)]]
  /\ UNCHANGED << sessions, tool_to_server, tools_cache, exit_stack, nacq,
                  config_tools >>

(***************************************************************************)
(* The specifications                                                      *)
(***************************************************************************)
\* the server the interleaved runs connect, and its script
ConcIds == {"server_0"}
ConcPaths == { <<"calculator_server", ".py">> }

\* connect_to_server, disconnect_server, refresh_tools_cache and cleanup
Registry(t, sids, connects) ==
  \/ \E c \in connects : ConnectCall(t, c[1], c[2])
  \/ ConnectTransport(t)
  \/ ConnectSession(t)
  \/ ConnectInit(t)
  \/ ConnectList(t)
  \/ RefreshCall(t)
  \/ RefreshList(t)
  \/ \E sid \in sids : DisconnectCall(t, sid)
  \/ CleanupCall(t)
  \/ CleanupRelease(t)

Step(t, connects) ==
  \/ Registry(t, ServerIds, connects)
  \/ \E name \in CallNames, args \in ArgSets : CallToolCall(t, name, args)
  \/ CallToolReply(t)
  \/ \E query \in Queries : ProcessQueryCall(t, query)

\* the server the runs of the streaming wrapper connect
StreamIds == {"server_0"}
StreamPaths == { <<"calculator_server", ".py">>, <<"weather_server", ".py">> }

StreamStep(t) ==
  \/ Registry(t, StreamIds, StreamIds \X StreamPaths)
  \/ \E cfg \in ConfigKinds \ {"shared"}, query \in Queries : StreamCall(t, cfg, query)
  \/ StreamNext(t)
  \/ CallToolReply(t)

\* the operations run to completion one at a time
SeqNext == \E t \in SeqTasks : Step(t, Connects) /\ UNCHANGED ncalls

\* what a coroutine of the interleaved runs does
ConcStep(t) ==
  \/ Registry(t, ConcIds, ConcIds \X ConcPaths)
  \/ \E fc \in { c \in FunctionCalls : c.name # UnknownTool } :
        CallToolCall(t, fc.name, fc.args)
  \/ CallToolReply(t)

\* the operations of two coroutines interleave at their awaits
ConcNext ==
  \E t \in Tasks :
     /\ ConcStep(t)
     /\ IF Free(t) THEN ncalls < MaxCalls /\ ncalls' = ncalls + 1
                   ELSE UNCHANGED ncalls

Spec == Init /\ [][SeqNext]_vars

SpecConc == Init /\ [][ConcNext]_vars

\* the registry and the streaming wrapper, one operation at a time
StreamSeqNext == \E t \in SeqTasks : StreamStep(t) /\ UNCHANGED ncalls

SpecStream == Init /\ [][StreamSeqNext]_vars

\* the runs where the streaming wrapper interleaves with the registry: the
\* wrapper awaits the model's generator and each of its chunks, and a second
\* coroutine connects and disconnects the server meanwhile
StreamTasks == {1}

ConcStreamStep(t) ==
  IF t \in StreamTasks
  THEN \/ \E query \in Queries : StreamCall(t, "none", query)
       \/ StreamNext(t)
       \/ CallToolReply(t)
  ELSE \/ \E c \in ConcIds \X ConcPaths : ConnectCall(t, c[1], c[2])
       \/ ConnectTransport(t)
       \/ ConnectSession(t)
       \/ ConnectInit(t)
       \/ ConnectList(t)
       \/ RefreshList(t)
       \/ \E sid \in ConcIds : DisconnectCall(t, sid)

ConcStreamNext ==
  \E t \in Tasks :
     /\ ConcStreamStep(t)
     /\ IF Free(t) THEN ncalls < MaxCalls /\ ncalls' = ncalls + 1
                   ELSE UNCHANGED ncalls

SpecConcStream == Init /\ [][ConcStreamNext]_vars

\* the server behind the session does not answer: session.call_tool is
\* awaited with no timer around it, so call_tool stays at its await
CallToolSilence(t) ==
  /\ task[t].pc = "t_invoke"
  /\ task' = [task EXCEPT ![t] = [task[t] EXCEPT !.pc = "t_wait"]]
  /\ UNCHANGED << sessions, tool_to_server, tools_cache, exit_stack, nacq,
                  config_tools >>

\* the registry and call_tool against servers that may stay silent
LiveStep(t) ==
  \/ Registry(t, StreamIds, StreamIds \X StreamPaths)
  \/ \E name \in CallNames, args \in ArgSets : CallToolCall(t, name, args)
  \/ CallToolReply(t)
  \/ CallToolSilence(t)

LiveNext == \E t \in SeqTasks : LiveStep(t) /\ UNCHANGED ncalls

\* an answer that is on its way arrives, and the event loop resumes the
\* coroutine that awaits it
SpecLive ==
  Init /\ [][LiveNext]_vars /\ WF_vars(\E t \in SeqTasks : CallToolReply(t) /\ UNCHANGED ncalls)

(***************************************************************************)
(* _clean_schema on its own: a schema from Schemas is cleaned, and the     *)
(* result is cleaned again                                                 *)
(***************************************************************************)
InitSchema ==
  /\ sessions = << >>
  /\ tool_to_server = EmptyDict
  /\ tools_cache = << >>
  /\ exit_stack = << >>
  /\ nacq = 0
  /\ config_tools = << >>
  /\ ncalls = 0
  /\ \E s \in Schemas :
       task = [t \in Tasks |->
                 IF t \in SeqTasks THEN [IdleTask EXCEPT !.schema = s]
                 ELSE IdleTask]

\* cleaned = self._clean_schema(schema)
CleanSchemaCall(t) ==
  /\ task[t].pc = "idle"
  /\ task[t].op = "none"
  /\ task' = [task EXCEPT ![t] =
                [@ EXCEPT !.pc = "done", !.op = "clean_schema",
                          !.cleaned = _clean_schema(task[t].schema)]]
  /\ UNCHANGED << sessions, tool_to_server, tools_cache, exit_stack, nacq,
                  config_tools, ncalls >>

\* self._clean_schema(cleaned): the result goes through the cleaning again
CleanSchemaAgain(t) ==
  /\ task[t].pc = "done"
  /\ task[t].op = "clean_schema"
  /\ ~task[t].again
  /\ task' = [task EXCEPT ![t] =
                [@ EXCEPT !.again = TRUE, !.schema = task[t].cleaned,
                          !.cleaned = _clean_schema(task[t].cleaned)]]
  /\ UNCHANGED << sessions, tool_to_server, tools_cache, exit_stack, nacq,
                  config_tools, ncalls >>

SchemaNext == \E t \in SeqTasks : CleanSchemaCall(t) \/ CleanSchemaAgain(t)

SpecSchema == InitSchema /\ [][SchemaNext]_vars

(***************************************************************************)
(* The wrapper called again and again, also with the config object of an   *)
(* earlier call: config.tools is a list the wrapper extends in place       *)
(***************************************************************************)
SharedStep(t) ==
  \/ Registry(t, StreamIds, StreamIds \X StreamPaths)
  \/ \E cfg \in ConfigKinds, query \in Queries : StreamCall(t, cfg, query)
  \/ StreamNext(t)
  \/ CallToolReply(t)

SharedNext ==
  \E t \in SeqTasks :
     /\ SharedStep(t)
     /\ IF Free(t) THEN ncalls < MaxCalls /\ ncalls' = ncalls + 1
                   ELSE UNCHANGED ncalls

SpecShared == Init /\ [][SharedNext]_vars

(***************************************************************************)
(* attach_adapter: the loop over servers.  Task 2 holds the frame of       *)
(* attach_adapter (servers, and the outcome of each attempt so far, whose   *)
(* number is the loop index i); task 1 runs the connect_to_server it awaits *)
(***************************************************************************)
AttachTask == 2
ConnectTask == 1

\* the script paths a caller lists
ScriptPaths ==
  { <<"calculator_server", ".py">>, <<"readme", ".txt">>,
    <<"weather_server", ".py">>, <<"tools_server", ".js">> }

\* the lists of servers attach_adapter is given
ServerLists == UNION { [1..n -> ScriptPaths] : n \in 0..MaxConn }

\* server_id = f"server_{i}"
ServerIdAt(i) == << "server_0", "server_1", "server_2", "server_3" >>[i + 1]

\* adapter = GeminiMCPAdapter(), with servers given
InitAttach ==
  /\ sessions = << >>
  /\ tool_to_server = EmptyDict
  /\ tools_cache = << >>
  /\ exit_stack = << >>
  /\ nacq = 0
  /\ config_tools = << >>
  /\ ncalls = 0
  /\ \E servers \in ServerLists :
       task = [t \in Tasks |->
                 IF t = AttachTask
                 THEN [IdleTask EXCEPT !.op = "attach", !.servers = servers,
                                       !.pc = IF servers = << >> THEN "done"
                                              ELSE "a_loop"]
                 ELSE IdleTask]

\* the attempt for entry i of servers is the call task ConnectTask holds
Attempted(i) ==
  task[ConnectTask].op = "connect" /\ task[ConnectTask].sid = ServerIdAt(i)

\* await adapter.connect_to_server(server_id, server_path), up to its first
\* await
AttachConnect ==
  /\ task[AttachTask].pc = "a_loop"
  /\ LET i == Len(task[AttachTask].outcomes)
     IN  /\ i < Len(task[AttachTask].servers)
         /\ ~Attempted(i)
         /\ ConnectCall(ConnectTask, ServerIdAt(i), task[AttachTask].servers[i + 1])

\* where the loop is after the attempts of outcomes: except Exception takes
\* a raised attempt, and the loop goes on to the next entry
Caught(servers, outcomes) ==
  IF Len(outcomes) = Len(servers) THEN "done" ELSE "a_loop"

\* connect_to_server returned or raised: print the outcome and go on
AttachCatch ==
  /\ task[AttachTask].pc = "a_loop"
  /\ Attempted(Len(task[AttachTask].outcomes))
  /\ task[ConnectTask].pc = "done"
  /\ LET outcomes == Append(task[AttachTask].outcomes, task[ConnectTask].res.kind)
     IN  task' = [task EXCEPT ![AttachTask] =
                    [@ EXCEPT !.outcomes = outcomes,
                              !.pc = Caught(task[AttachTask].servers, outcomes)]]
  /\ UNCHANGED << sessions, tool_to_server, tools_cache, exit_stack, nacq,
                  config_tools >>

AttachNext ==
  /\ \/ AttachConnect
     \/ ConnectTransport(ConnectTask)
     \/ ConnectSession(ConnectTask)
     \/ ConnectInit(ConnectTask)
     \/ ConnectList(ConnectTask)
     \/ RefreshList(ConnectTask)
     \/ AttachCatch
  /\ UNCHANGED ncalls

SpecAttach == InitAttach /\ [][AttachNext]_vars

(***************************************************************************)
(* Properties                                                              *)
(***************************************************************************)
\* no operation is in flight
Quiescent == \A t \in Tasks : Free(t)

\* C1: after any sequence of connect_to_server, disconnect_server and
\* cleanup calls that ran to completion one at a time, every tool name in
\* tool_to_server maps to a server_id that is in sessions.
C1_CatalogOwnersLive ==
  Quiescent =>
    \A n \in DOMAIN tool_to_server : tool_to_server[n] \in LiveIds(sessions)

\* a disconnect of a live server has completed, another server is still
\* connected and the catalog still has entries
C1_Witness ==
  /\ task[1].pc = "done" /\ task[1].op = "disconnect"
  /\ task[1].sid \in LiveIds(task[1].pre.sessions)
  /\ task[1].pre.tool_to_server # EmptyDict
  /\ \E n \in DOMAIN task[1].pre.tool_to_server :
        task[1].pre.tool_to_server[n] = task[1].sid
  /\ sessions # << >>
  /\ tool_to_server # EmptyDict

\* C2: connect_to_server with a server_id that is already live raises the
\* already-in-use error and leaves sessions, tool_to_server, tools_cache and
\* the exit stack as they were before the call.
C2_DuplicateRejected ==
  \A t \in SeqTasks :
     (task[t].op = "connect" /\ task[t].sid \in LiveIds(task[t].pre.sessions)) =>
        /\ task[t].pc = "done"
        /\ task[t].res.kind = "raise"
        /\ task[t].res.val =
             << "ValueError", "Server ID '", task[t].sid, "' is already in use" >>
        /\ Snapshot = task[t].pre

C2_Witness ==
  /\ task[1].pc = "done" /\ task[1].op = "connect"
  /\ task[1].sid \in LiveIds(task[1].pre.sessions)
  /\ task[1].pre.tools_cache # << >>
  /\ EndsWith(task[1].path, ".py")

\* C3: call_tool with a name that is not in tool_to_server returns the
\* not-found text carrying the name, raises nothing and invokes no session,
\* whatever state the adapter is in.
C3_UnknownToolNotFound ==
  \A t \in SeqTasks :
     (task[t].op = "call_tool" /\ task[t].name \notin DOMAIN task[t].pre.tool_to_server) =>
        /\ task[t].pc = "done"
        /\ task[t].res = Returned(<< "Error: Tool '", task[t].name,
                                     "' not found in any connected server" >>)
        /\ task[t].invoked = << >>

\* call_tool was asked for a tool no server has while a server is connected
C3_Witness ==
  /\ task[1].pc = "done" /\ task[1].op = "call_tool"
  /\ task[1].name \notin DOMAIN tool_to_server
  /\ tool_to_server # EmptyDict
  /\ task[1].res.kind = "return"

\* C4: when session.call_tool raises a fault, call_tool returns the
\* invocation-failed text carrying the fault's message; the fault does not
\* reach the caller of call_tool.
C4_FaultBecomesText ==
  \A t \in SeqTasks :
     (task[t].fault # "") =>
        LET c == task[t].calls[Len(task[t].calls)]
        IN  /\ c.result = << "Error calling tool ", c.name, ": ", task[t].fault >>
            /\ task[t].pc = "done"
            /\ task[t].res.kind = "return"
            /\ task[t].op = "call_tool" => task[t].res.val = c.result

\* session.call_tool raised during a call_tool of a connected server's tool
C4_Witness ==
  /\ task[1].pc = "done" /\ task[1].op = "call_tool"
  /\ task[1].fault = "server error"
  /\ Len(task[1].invoked) = 1
  /\ task[1].res.kind = "return"

\* the declarations a connected server contributes to the catalog
DeclsOf(sess) == GeminiTools(ServerTools(sess.path))
DeclSet(sess) == { DeclsOf(sess)[i] : i \in 1..Len(DeclsOf(sess)) }

\* the declarations of cache that come from the sessions in ss
OwnedDecls(cache, ss) ==
  { cache[i] : i \in 1..Len(cache) } \cap
  UNION { DeclSet(ss[j].sess) : j \in 1..Len(ss) }

\* C5: disconnect_server(S) for a live S removes S from sessions and every
\* catalog entry owned by S (its tool_to_server mappings and its tools_cache
\* declarations), and leaves the mappings and declarations owned by every
\* other live server as they were before the call.
C5_DisconnectRemovesOnlyOwn ==
  \A t \in SeqTasks :
     ( /\ task[t].op = "disconnect" /\ task[t].pc = "done"
       /\ task[t].sid \in LiveIds(task[t].pre.sessions) ) =>
        LET S == task[t].sid
            pre == task[t].pre
        IN  /\ S \notin LiveIds(sessions)
            /\ \A n \in DOMAIN tool_to_server : tool_to_server[n] # S
            /\ \A i \in 1..Len(tools_cache) :
                  \E j \in 1..Len(sessions) : tools_cache[i] \in DeclSet(sessions[j].sess)
            /\ \A n \in DOMAIN pre.tool_to_server :
                  pre.tool_to_server[n] # S =>
                     /\ n \in DOMAIN tool_to_server
                     /\ tool_to_server[n] = pre.tool_to_server[n]
            /\ OwnedDecls(tools_cache, sessions) = OwnedDecls(pre.tools_cache, sessions)

\* C6: when the first content part of the model's response is a function
\* call, process_query calls call_tool exactly once with the requested name
\* and arguments, then sends a second request whose config carries no tools,
\* and returns the tool-used marker, the raw tool result and the model's
\* interpretation, in that order.
C6_ToolRoundTrip ==
  \A t \in SeqTasks :
     (task[t].op = "process_query" /\ task[t].pc = "done" /\ task[t].fc.name # "") =>
        /\ Len(task[t].calls) = 1
        /\ task[t].calls[1].name = task[t].fc.name
        /\ task[t].calls[1].args = task[t].fc.args
        /\ Len(task[t].requests) = 2
        /\ task[t].requests[1].tools = ToolObjects(task[t].pre.tools_cache)
        /\ task[t].requests[2].tools = << >>
        /\ task[t].final_text \in ModelTexts
        /\ task[t].res = Returned(<< "[Tool Used: ", task[t].fc.name, "]\n\n" >>
                                  \o task[t].calls[1].result \o << "\n\n" >>
                                  \o task[t].final_text)

\* the model asked for add, the calculator answered and the follow-up came back
C6_Witness ==
  /\ task[1].op = "process_query" /\ task[1].pc = "done"
  /\ task[1].fc.name = "add"
  /\ Len(task[1].invoked) = 1
  /\ task[1].calls[1].result = << "40", ".0", " + ", "2", ".0", " = ", "42", ".0" >>
  /\ task[1].res.kind = "return"
  /\ task[1].requests[1].tools # << >>

\* the chunks of the model's stream that carry a function-call request
CallChunksOf(inp) == { i \in 1..Len(inp) : inp[i].function_calls # << >> }

\* C7 as stated: in a stream where one chunk carries a function-call
\* request, the wrapper yields as many chunks in the same order, the other
\* chunks unmodified, and that chunk with its text replaced by the text
\* call_tool returns for the requested name and arguments.
C7_AsStated ==
  \A t \in SeqTasks :
     ( /\ task[t].op = "stream" /\ task[t].pc = "done"
       /\ Cardinality(CallChunksOf(task[t].inp)) = 1 ) =>
        LET i == CHOOSE k \in CallChunksOf(task[t].inp) : TRUE
            fc == task[t].inp[i].function_calls[1]
        IN  /\ Len(task[t].out) = Len(task[t].inp)
            /\ \A j \in 1..Len(task[t].inp) : j # i => task[t].out[j] = task[t].inp[j]
            /\ Len(task[t].calls) = 1
            /\ task[t].calls[1].name = fc.name
            /\ task[t].calls[1].args = fc.args
            /\ task[t].out[i] = [task[t].inp[i] EXCEPT !._text = task[t].calls[1].result]

\* C7, amended: the chunk's text is replaced by call_tool's text when the
\* requested name is in tool_to_server; when it is not, call_tool is not
\* called and the chunk is yielded unmodified.
C7_ReplacedWhenCataloged ==
  \A t \in SeqTasks :
     ( /\ task[t].op = "stream" /\ task[t].pc = "done"
       /\ Cardinality(CallChunksOf(task[t].inp)) = 1 ) =>
        LET i == CHOOSE k \in CallChunksOf(task[t].inp) : TRUE
            fc == task[t].inp[i].function_calls[1]
        IN  /\ Len(task[t].out) = Len(task[t].inp)
            /\ \A j \in 1..Len(task[t].inp) : j # i => task[t].out[j] = task[t].inp[j]
            /\ IF fc.name \in DOMAIN task[t].pre.tool_to_server
               THEN /\ Len(task[t].calls) = 1
                    /\ task[t].calls[1].name = fc.name
                    /\ task[t].calls[1].args = fc.args
                    /\ task[t].out[i] =
                         [task[t].inp[i] EXCEPT !._text = task[t].calls[1].result]
               ELSE /\ task[t].calls = << >>
                    /\ task[t].out[i] = task[t].inp[i]

\* a stream of three chunks whose second asked for add, with the calculator
\* connected
C7_Witness ==
  /\ task[1].op = "stream" /\ task[1].pc = "done"
  /\ Len(task[1].inp) = 3
  /\ CallChunksOf(task[1].inp) = {2}
  /\ Len(task[1].calls) = 1
  /\ task[1].out[2]._text = << "40", ".0", " + ", "2", ".0", " = ", "42", ".0" >>

\* C8: while a catalog refresh is in progress a reader sees the complete
\* catalog from before the refresh (the name-to-server map and the
\* declaration list are replaced together when it ends), and a refresh that
\* fails partway leaves both unchanged.
C8_RefreshAtomic ==
  \A t \in SeqTasks :
     task[t].op = "refresh" =>
        /\ task[t].pc = "r_list" =>
             /\ tool_to_server = task[t].pre.tool_to_server
             /\ tools_cache = task[t].pre.tools_cache
        /\ (task[t].pc = "done" /\ task[t].res.kind = "raise") =>
             /\ tool_to_server = task[t].pre.tool_to_server
             /\ tools_cache = task[t].pre.tools_cache

\* C9: once a cleanup() call has ended, by returning or by raising a release
\* failure, sessions, tool_to_server and tools_cache are empty.
C9_CleanupClears ==
  \A t \in SeqTasks :
     (task[t].op = "cleanup" /\ task[t].pc = "done") =>
        /\ sessions = << >>
        /\ tool_to_server = EmptyDict
        /\ tools_cache = << >>

\* C10: cleanup() releases the resources the connects acquired in strict
\* reverse order of acquisition: of two resources the later acquired is
\* released first, a connection's session before its transport.
C10_ReverseRelease ==
  \A t \in SeqTasks :
     task[t].op = "cleanup" =>
        LET rel == task[t].released
            stack == task[t].pre.exit_stack
        IN  /\ \A i, j \in 1..Len(rel) : i < j =>
                  /\ rel[i].acq > rel[j].acq
                  /\ rel[i].conn = rel[j].conn =>
                       rel[i].kind = "session" /\ rel[j].kind = "transport"
            /\ \A i \in 1..Len(rel) : \E k \in 1..Len(stack) : stack[k] = rel[i]
            /\ \A k \in 1..Len(stack) :
                  (\A i \in 1..Len(rel) : rel[i] # stack[k]) =>
                     \A i \in 1..Len(rel) : stack[k].acq < rel[i].acq
            /\ task[t].pc = "done" => Len(rel) = Len(stack)

\* a cleanup has released the transports and sessions of two connections
C10_Witness ==
  /\ task[1].op = "cleanup" /\ task[1].pc = "done"
  /\ Len(task[1].released) = 4
  /\ task[1].released[1].kind = "session"
  /\ task[1].released[2].kind = "transport"
  /\ task[1].released[1].conn # task[1].released[4].conn

\* C11: when the release of a resource fails during cleanup(), the resources
\* still on the cleanup stack are released all the same, and the call ends by
\* raising the failure to its caller.
C11_FailureKeepsReleasing ==
  \A t \in SeqTasks :
     task[t].op = "cleanup" =>
        /\ task[t].pc = "x_release" =>
             (task[t].first_fail = 0) = (task[t].pending = "")
        /\ task[t].pc = "done" =>
             /\ exit_stack = << >>
             /\ Len(task[t].released) = Len(task[t].pre.exit_stack)
             /\ \A k \in 1..Len(task[t].pre.exit_stack) :
                   \E i \in 1..Len(task[t].released) :
                      task[t].released[i] = task[t].pre.exit_stack[k]
             /\ (task[t].first_fail # 0) = (task[t].res.kind = "raise")
             /\ task[t].first_fail # 0 => task[t].res = Fault("connection closed")

\* the first of four releases failed, the other three were made, and the
\* call raised
C11_Witness ==
  /\ task[1].op = "cleanup" /\ task[1].pc = "done"
  /\ task[1].first_fail = 1
  /\ Len(task[1].released) = 4
  /\ task[1].res.kind = "raise"
  /\ exit_stack = << >>

\* C12: a connect_to_server attempt that passed the id and extension checks
\* and then failed (transport launch, handshake, tool listing or catalog
\* refresh) leaves its server_id not live and leaves the sessions and the
\* catalog entries of the other live connections as they were.
C12_FailedConnectLeavesNoTrace ==
  \A t \in SeqTasks :
     ( /\ task[t].op = "connect" /\ task[t].pc = "done"
       /\ task[t].res.kind = "raise"
       /\ task[t].sid \notin LiveIds(task[t].pre.sessions)
       /\ (EndsWith(task[t].path, ".py") \/ EndsWith(task[t].path, ".js")) ) =>
        LET pre == task[t].pre
        IN  /\ task[t].sid \notin LiveIds(sessions)
            /\ \A id \in LiveIds(pre.sessions) :
                  /\ id \in LiveIds(sessions)
                  /\ SessionOf(sessions, id) = SessionOf(pre.sessions, id)
            /\ \A n \in DOMAIN pre.tool_to_server :
                  /\ n \in DOMAIN tool_to_server
                  /\ tool_to_server[n] = pre.tool_to_server[n]
            /\ OwnedDecls(tools_cache, pre.sessions)
                 = OwnedDecls(pre.tools_cache, pre.sessions)

\* C13: every call_tool invocation ends, also when the tool server does not
\* answer (by returning a timeout result once the per-call timeout has
\* passed).
C13_CallToolEnds ==
  \A t \in SeqTasks :
     (task[t].op = "call_tool" /\ task[t].pc # "done")
        ~> (task[t].op = "call_tool" /\ task[t].pc = "done")

\* the connection on which a task has a call_tool or list_tools request
\* outstanding, 0 when it has none
OnSession(tk) ==
  CASE tk.pc \in {"t_invoke", "r_list"} -> tk.cur_sess.conn
    [] tk.pc = "c_list" -> tk.sess.conn
    [] OTHER -> 0

\* C14: invocations against the same connection never overlap: of the
\* call_tool and tool-list requests of concurrent operations on one session,
\* the next is issued only after the previous one has completed.
C14_NoOverlapOnSession ==
  \A t, u \in Tasks :
     (t # u /\ OnSession(task[t]) # 0) => OnSession(task[t]) # OnSession(task[u])

\* the function-call chunks of inp whose requested name is in the catalog
Cataloged(inp, t2s) ==
  { i \in CallChunksOf(inp) : inp[i].function_calls[1].name \in DOMAIN t2s }

\* C15 as stated: in a stream where more than one chunk carries a
\* function-call request, only the first such chunk triggers a tool
\* invocation and has its text replaced; every later function-call chunk is
\* passed through unmodified and causes no invocation.
C15_AsStated ==
  \A t \in SeqTasks :
     ( /\ task[t].op = "stream" /\ task[t].pc = "done"
       /\ Cardinality(CallChunksOf(task[t].inp)) > 1 ) =>
        LET first == CHOOSE i \in CallChunksOf(task[t].inp) :
                        \A j \in CallChunksOf(task[t].inp) : i <= j
        IN  /\ Len(task[t].calls) <= 1
            /\ Len(task[t].invoked) <= 1
            /\ \A j \in CallChunksOf(task[t].inp) :
                  j # first => task[t].out[j] = task[t].inp[j]

\* C15, amended: every chunk that carries a function-call request for a name
\* in tool_to_server triggers one call_tool invocation, in stream order, and
\* has its text replaced by that call's result; the other chunks are passed
\* through unmodified.
C15_EveryCatalogedCall ==
  \A t \in SeqTasks :
     ( /\ task[t].op = "stream" /\ task[t].pc = "done"
       /\ Cardinality(CallChunksOf(task[t].inp)) > 1 ) =>
        LET inp == task[t].inp
            hs == Cataloged(inp, task[t].pre.tool_to_server)
            rank(i) == Cardinality({ j \in hs : j <= i })
        IN  /\ Len(task[t].out) = Len(inp)
            /\ Len(task[t].calls) = Cardinality(hs)
            /\ \A i \in 1..Len(inp) :
                  IF i \in hs
                  THEN /\ task[t].calls[rank(i)].name = inp[i].function_calls[1].name
                       /\ task[t].calls[rank(i)].args = inp[i].function_calls[1].args
                       /\ task[t].out[i] =
                            [inp[i] EXCEPT !._text = task[t].calls[rank(i)].result]
                  ELSE task[t].out[i] = inp[i]

\* two chunks of a stream asked for add with the calculator connected, and
\* both were answered by the server
C15_Witness ==
  /\ task[1].op = "stream" /\ task[1].pc = "done"
  /\ Cardinality(Cataloged(task[1].inp, task[1].pre.tool_to_server)) = 2
  /\ Len(task[1].calls) = 2
  /\ Len(task[1].invoked) = 2
  /\ \A i \in Cataloged(task[1].inp, task[1].pre.tool_to_server) :
        task[1].out[i]._text = << "40", ".0", " + ", "2", ".0", " = ", "42", ".0" >>

\* C16: a refresh_tools_cache call that follows a completed
\* refresh_tools_cache call, with no connect or disconnect in between and the
\* servers' tool lists unchanged, ends with the same tools_cache (same
\* declarations, same order) and the same tool_to_server as the first.
C16_RefreshIdempotent ==
  \A t \in SeqTasks :
     ( /\ task[t].op = "refresh" /\ task[t].pc = "done"
       /\ task[t].again /\ task[t].res.kind = "return" ) =>
        /\ tools_cache = task[t].pre.tools_cache
        /\ tool_to_server = task[t].pre.tool_to_server
        /\ task[t].res.val = task[t].pre.tools_cache

\* a second refresh in a row has completed with two servers connected whose
\* tools collide on a name
C16_Witness ==
  /\ task[1].op = "refresh" /\ task[1].pc = "done"
  /\ task[1].again /\ task[1].res.kind = "return"
  /\ Len(sessions) = 2
  /\ Len(tools_cache) = 3
  /\ "add" \in DOMAIN tool_to_server /\ tool_to_server["add"] = "server_1"

\* the declarations of the sessions' tools, in the order of self.sessions
RECURSIVE AllDecls(_)
AllDecls(ss) ==
  IF ss = << >> THEN << >> ELSE DeclsOf(ss[1].sess) \o AllDecls(Tail(ss))

\* the sum of the sizes of the sessions' tool lists
RECURSIVE NumTools(_)
NumTools(ss) ==
  IF ss = << >> THEN 0 ELSE Len(ServerTools(ss[1].sess.path)) + NumTools(Tail(ss))

DisjointNames(ss) ==
  \A i, j \in 1..Len(ss) :
     i # j => ToolNamesOf(ServerTools(ss[i].sess.path))
                \cap ToolNamesOf(ServerTools(ss[j].sess.path)) = { }

\* C17: a connect_to_server call that succeeds returns exactly the
\* normalized declarations of the new server's tools; on return tools_cache
\* holds the declarations of every live server's tools, and when the live
\* servers expose disjoint tool names its size is the sum of the sizes of
\* their tool lists.
C17_ConnectReturnsAndRefreshes ==
  \A t \in SeqTasks :
     ( /\ task[t].op = "connect" /\ task[t].pc = "done"
       /\ task[t].res.kind = "return" ) =>
        /\ task[t].sid \in LiveIds(sessions)
        /\ SessionOf(sessions, task[t].sid).path = task[t].path
        /\ Len(task[t].res.val) = Len(ServerTools(task[t].path))
        /\ \A i \in 1..Len(task[t].res.val) :
              LET tool == ServerTools(task[t].path)[i]
              IN  task[t].res.val[i] =
                    [name |-> tool.name, description |-> tool.description,
                     parameters |-> _clean_schema(tool.inputSchema)]
        /\ tools_cache = AllDecls(sessions)
        /\ \A n \in ToolNamesOf(ServerTools(task[t].path)) :
              n \in DOMAIN tool_to_server /\ tool_to_server[n] = task[t].sid
        /\ DisjointNames(sessions) => Len(tools_cache) = NumTools(sessions)

\* the weather server was connected next to the calculator: the call
\* returned the one weather declaration and the catalog holds three
C17_Witness ==
  /\ task[1].op = "connect" /\ task[1].pc = "done" /\ task[1].res.kind = "return"
  /\ task[1].path = <<"weather_server", ".py">>
  /\ Len(task[1].res.val) = 1
  /\ task[1].res.val[1].name = "get_current_weather"
  /\ Len(sessions) = 2
  /\ DisjointNames(sessions)
  /\ Len(tools_cache) = 3

\* the tokens of a text
Tokens(text) == { text[i] : i \in 1..Len(text) }

\* C18: call_tool on a cataloged tool whose owning session is live invokes
\* that session and no other, once, with the given name and arguments
\* unchanged; it returns the text of the first content item of the reply, or
\* the fixed executed-but-empty text when the reply has no content items.
\* add with a = 40, b = 2 on the calculator server returns a text that
\* contains 42.
C18_RoutedCallReturnsFirstText ==
  \A t \in SeqTasks :
     ( /\ task[t].op = "call_tool" /\ task[t].pc = "done"
       /\ task[t].name \in DOMAIN task[t].pre.tool_to_server
       /\ task[t].pre.tool_to_server[task[t].name] \in LiveIds(task[t].pre.sessions) ) =>
        LET owner == task[t].pre.tool_to_server[task[t].name]
            session == SessionOf(task[t].pre.sessions, owner)
            answered == task[t].fault = ""
        IN  /\ task[t].invoked =
                 << [conn |-> session.conn, name |-> task[t].name,
                     args |-> task[t].args] >>
            /\ task[t].res.kind = "return"
            /\ (answered /\ task[t].reply = << >>) =>
                  task[t].res.val =
                    << "Tool executed successfully but returned no content." >>
            /\ (answered /\ task[t].reply # << >> /\ task[t].reply[1].type = "text") =>
                  task[t].res.val = task[t].reply[1].text
            /\ ( /\ answered /\ task[t].name = "add"
                 /\ task[t].args = [a |-> 40, b |-> 2]
                 /\ session.path = <<"calculator_server", ".py">>
                 /\ task[t].reply # << >> /\ task[t].reply[1].type = "text" ) =>
                  "42" \in Tokens(task[t].res.val)

\* add(40, 2) was routed to the calculator, the second of two connected
\* servers, and its answer came back
C18_Witness ==
  /\ task[1].op = "call_tool" /\ task[1].pc = "done"
  /\ task[1].name = "add" /\ task[1].args = [a |-> 40, b |-> 2]
  /\ Len(task[1].pre.sessions) = 2
  /\ task[1].pre.sessions[2].sess.path = <<"calculator_server", ".py">>
  /\ "add" \in DOMAIN task[1].pre.tool_to_server
  /\ task[1].pre.tool_to_server["add"] = task[1].pre.sessions[2].id
  /\ Len(task[1].invoked) = 1
  /\ task[1].invoked[1].conn = task[1].pre.sessions[2].sess.conn
  /\ task[1].res = Returned(<< "40", ".0", " + ", "2", ".0", " = ", "42", ".0" >>)

\* C19: once disconnect_server(S) has ended for a live S, the transport and
\* session resources acquired for S's connection have been released and the
\* cleanup stack holds them no more.
C19_DisconnectReleases ==
  \A t \in SeqTasks :
     ( /\ task[t].op = "disconnect" /\ task[t].pc = "done"
       /\ task[t].sid \in LiveIds(task[t].pre.sessions) ) =>
        \A i \in 1..Len(exit_stack) :
           exit_stack[i].conn # SessionOf(task[t].pre.sessions, task[t].sid).conn

\* the interpreter command of the transport acquired for connection conn
CommandOf(stack, conn) ==
  { stack[i].command : i \in { k \in 1..Len(stack) :
                                 stack[k].kind = "transport" /\ stack[k].conn = conn } }

\* C20: connect_to_server with a script path that ends in neither .py nor
\* .js fails with an error before any transport is launched and leaves
\* sessions, the catalog and the cleanup stack unchanged; a transport is
\* launched with the python command for a .py script and with the node
\* command for a .js script, never with another command.
C20_ExtensionDecidesCommand ==
  /\ \A t \in SeqTasks :
        task[t].op = "connect" =>
           LET is_python == EndsWith(task[t].path, ".py")
               is_js == EndsWith(task[t].path, ".js")
           IN  /\ ~(is_python \/ is_js) =>
                    /\ task[t].pc = "done"
                    /\ task[t].res.kind = "raise"
                    /\ task[t].sid \notin LiveIds(task[t].pre.sessions) =>
                         task[t].res.val =
                           << "ValueError", "Server script must be a .py or .js file" >>
                    /\ Snapshot = task[t].pre
               /\ task[t].sess.conn # 0 =>
                    CommandOf(exit_stack, task[t].sess.conn)
                       \subseteq { IF is_python THEN "python" ELSE "node" }
  /\ \A j \in 1..Len(sessions) :
        CommandOf(exit_stack, sessions[j].sess.conn)
           \subseteq { IF EndsWith(sessions[j].sess.path, ".py") THEN "python"
                       ELSE "node" }
  /\ \A i \in 1..Len(exit_stack) :
        exit_stack[i].kind = "transport" => exit_stack[i].command \in {"python", "node"}

\* a connect with readme.txt was rejected next to a connected .js server
\* that runs under node
C20_Witness ==
  /\ task[1].op = "connect" /\ task[1].pc = "done"
  /\ task[1].path = <<"readme", ".txt">>
  /\ task[1].res.kind = "raise"
  /\ Len(sessions) = 1
  /\ sessions[1].sess.path = <<"tools_server", ".js">>
  /\ CommandOf(exit_stack, sessions[1].sess.conn) = {"node"}
  /\ Len(exit_stack) = 2

\* C21: process_query called while no session is connected returns the
\* fixed no-sessions text; it sends no request to the model, invokes no tool
\* and does not raise.
C21_NoSessionsText ==
  \A t \in SeqTasks :
     (task[t].op = "process_query" /\ task[t].pre.sessions = << >>) =>
        /\ task[t].pc = "done"
        /\ task[t].res =
             Returned(<< "Not connected to any MCP servers. Connect to at least one server first."
                      >>)
        /\ task[t].requests = << >>
        /\ task[t].invoked = << >>
        /\ task[t].calls = << >>

\* a query was asked after the only server had been disconnected, its
\* resources still on the cleanup stack
C21_Witness ==
  /\ task[1].op = "process_query" /\ task[1].pc = "done"
  /\ task[1].pre.sessions = << >>
  /\ task[1].pre.exit_stack # << >>
  /\ task[1].res.kind = "return"

\* C22: whenever the model's response has no candidates, or a first
\* candidate with no content or with no content parts, process_query returns
\* the fixed no-response text; it does not raise, invokes no tool and sends
\* no second request.
C22_MalformedResponseReported ==
  \A t \in SeqTasks :
     ( /\ task[t].op = "process_query" /\ task[t].pc = "done"
       /\ task[t].pre.sessions # << >>
       /\ \/ task[t].response.candidates = << >>
          \/ ~task[t].response.candidates[1].content.present
          \/ task[t].response.candidates[1].content.parts = << >> ) =>
        /\ task[t].res = Returned(<< "No response from the model." >>)
        /\ task[t].invoked = << >>
        /\ Len(task[t].requests) = 1

\* the content parts of the response the task received
PartsOf(tk) == tk.response.candidates[1].content.parts

\* C23: when the model's response carries no function call, process_query
\* sends exactly one model request, invokes no tool and returns the model's
\* text unchanged.
C23_DirectTextUnchanged ==
  \A t \in SeqTasks :
     ( /\ task[t].op = "process_query" /\ task[t].pc = "done"
       /\ task[t].pre.sessions # << >>
       /\ task[t].response.candidates # << >>
       /\ task[t].response.candidates[1].content.present
       /\ PartsOf(task[t]) # << >>
       /\ \A i \in 1..Len(PartsOf(task[t])) : ~PartsOf(task[t])[i].has_call ) =>
        /\ Len(task[t].requests) = 1
        /\ task[t].requests[1].contents = << task[t].query >>
        /\ task[t].invoked = << >>
        /\ task[t].calls = << >>
        /\ task[t].res.kind = "return"
        /\ task[t].res.val =
             IF Len(PartsOf(task[t])) = 1 THEN PartsOf(task[t])[1].text
             ELSE PartsOf(task[t])[1].text \o PartsOf(task[t])[2].text

\* the model answered in two text parts and both came back, in order
C23_Witness ==
  /\ task[1].op = "process_query" /\ task[1].pc = "done"
  /\ task[1].pre.sessions # << >>
  /\ task[1].response.candidates # << >>
  /\ Len(PartsOf(task[1])) = 2
  /\ task[1].res = Returned(<< "The sum ", "is 42." >>)

\* C24: when the model asks for a tool name that belongs to no connected
\* server, process_query does not raise and does not stop the exchange: it
\* sends the follow-up request and returns the combined response whose
\* tool-result part is the not-found text.
C24_UnknownCallStillAnswered ==
  \A t \in SeqTasks :
     ( /\ task[t].op = "process_query" /\ task[t].pc = "done"
       /\ task[t].fc.name # ""
       /\ task[t].fc.name \notin DOMAIN task[t].pre.tool_to_server ) =>
        LET not_found == << "Error: Tool '", task[t].fc.name,
                            "' not found in any connected server" >>
        IN  /\ task[t].invoked = << >>
            /\ Len(task[t].requests) = 2
            /\ task[t].requests[2].contents =
                 << "I asked: ", task[t].query, "\n\nThe tool ", task[t].fc.name,
                    " returned: " >> \o not_found
                 \o << "\n\nCan you explain this result?" >>
            /\ task[t].res =
                 Returned(<< "[Tool Used: ", task[t].fc.name, "]\n\n" >> \o not_found
                          \o << "\n\n" >> \o task[t].final_text)

\* the model asked for translate while the calculator and the weather
\* server were connected
C24_Witness ==
  /\ task[1].op = "process_query" /\ task[1].pc = "done"
  /\ task[1].fc.name = "translate"
  /\ Len(task[1].pre.sessions) = 2
  /\ DOMAIN task[1].pre.tool_to_server = {"add", "subtract", "get_current_weather"}
  /\ task[1].res.kind = "return"
  /\ task[1].final_text # << >>

\* C25: cleaning a schema that has already been cleaned changes nothing:
\* for every input schema, _clean_schema of the cleaned schema is the cleaned
\* schema itself
C25_CleanIdempotent ==
  \A t \in SeqTasks :
    (task[t].op = "clean_schema" /\ task[t].again)
      => task[t].cleaned = task[t].schema

\* a schema with a stripped property and a cleaned element schema two levels
\* down has gone through the cleaning twice
C25_Witness ==
  /\ task[1].op = "clean_schema"
  /\ task[1].again
  /\ "properties" \in DOMAIN task[1].cleaned
  /\ LET a == task[1].cleaned["properties"].v["a"]
     IN  /\ IsDict(a)
         /\ "items" \in DOMAIN a.v
         /\ IsDict(a.v["items"])
         /\ "properties" \in DOMAIN a.v["items"].v
         /\ a.v["items"].v["properties"].v["a"] = Dict([k \in {"type"} |-> Atom("string")])
         /\ task[1].cleaned["properties"].v["format"] = Dict([k \in {"type"} |-> Atom("string")])

\* c is s without additionalProperties and $schema at the top level and
\* without default, examples and format in each dictionary of its properties
\* map, the element schema of a property (items, when a dictionary) being
\* related in the same way for `levels` more levels (a negative number: at
\* every level); every other key and value is the same
RECURSIVE CleanedFrom(_, _, _)
CleanedFrom(c, s, levels) ==
  /\ DOMAIN c = DOMAIN s \ {"additionalProperties", "$schema"}
  /\ \A k \in DOMAIN c : k # "properties" => c[k] = s[k]
  /\ "properties" \in DOMAIN c =>
       LET cp == c["properties"]
           sp == s["properties"]
       IN  /\ IsDict(cp)
           /\ DOMAIN cp.v = DOMAIN sp.v
           /\ \A p \in DOMAIN sp.v :
                IF ~IsDict(sp.v[p])
                THEN cp.v[p] = sp.v[p]
                ELSE /\ IsDict(cp.v[p])
                     /\ DOMAIN cp.v[p].v =
                          DOMAIN sp.v[p].v \ {"default", "examples", "format"}
                     /\ \A k \in DOMAIN cp.v[p].v :
                          IF k = "items" /\ IsDict(sp.v[p].v[k]) /\ levels # 0
                          THEN /\ IsDict(cp.v[p].v[k])
                               /\ CleanedFrom(cp.v[p].v[k].v, sp.v[p].v[k].v,
                                              levels - 1)
                          ELSE cp.v[p].v[k] = sp.v[p].v[k]

\* C26 as stated: _clean_schema removes additionalProperties and $schema at
\* the top level, default, examples and format in each entry of properties,
\* and the same keys in the element schema of an array property one level
\* deep only; everything else, deeper element schemas included, is unchanged
C26_AsStated ==
  \A t \in SeqTasks :
    (task[t].op = "clean_schema" /\ ~task[t].again)
      => CleanedFrom(task[t].cleaned, task[t].schema, 1)

\* C26: _clean_schema removes additionalProperties and $schema at the top
\* level, default, examples and format in each dictionary entry of
\* properties, and cleans the element schema of every array property in the
\* same way at every depth; every other key and value is unchanged
C26_CleansEveryLevel ==
  \A t \in SeqTasks :
    (task[t].op = "clean_schema" /\ ~task[t].again)
      => CleanedFrom(task[t].cleaned, task[t].schema, -1)

\* a schema whose element schema two levels down carried a banned key has
\* been cleaned, and the key is gone there
C26_Witness ==
  /\ task[1].op = "clean_schema"
  /\ ~task[1].again
  /\ "properties" \in DOMAIN task[1].schema
  /\ "title" \in DOMAIN task[1].cleaned
  /\ LET deep(x) == x["properties"].v["a"].v["items"].v
         a == task[1].schema["properties"].v["a"]
     IN  /\ IsDict(a)
         /\ "items" \in DOMAIN a.v
         /\ IsDict(a.v["items"])
         /\ "properties" \in DOMAIN deep(task[1].schema)
         /\ IsDict(deep(task[1].schema)["properties"].v["a"])
         /\ "items" \in DOMAIN deep(task[1].schema)["properties"].v["a"].v
         /\ IsDict(deep(task[1].schema)["properties"].v["a"].v["items"])
         /\ "$schema" \in DOMAIN deep(deep(task[1].schema))
         /\ "$schema" \notin DOMAIN deep(deep(task[1].cleaned))
         /\ "default" \in DOMAIN deep(deep(task[1].cleaned))

\* C27: a disconnect_server(S) that runs while a list_tools() for S is awaited
\* leaves no catalog entry owned by S: once no operation is in flight, every
\* server id tool_to_server names is in sessions
C27_NoEntryOfAbsentServer ==
  Quiescent =>
    \A n \in DOMAIN tool_to_server : tool_to_server[n] \in LiveIds(sessions)

\* C28: of two connect_to_server calls with the same server_id in flight
\* together at most one succeeds: no step replaces the session registered
\* under an id by another session under the same id
C28_NoSilentReplacement ==
  [][\A i \in 1..Len(sessions) : \A j \in 1..Len(sessions') :
        sessions[i].id = sessions'[j].id => sessions[i].sess = sessions'[j].sess]_vars

\* C29: a connect or disconnect that happens after an exchange has sent its
\* model request does not change the exchange's outcome: the chunks of the
\* stream that trigger call_tool are those whose requested name was in
\* tool_to_server when the request was sent, and no other chunk is modified
C29_RoutedByCatalogAtRequest ==
  \A t \in Tasks :
     (task[t].op = "stream" /\ task[t].pc = "done") =>
        LET inp == task[t].inp
            hs == Cataloged(inp, task[t].pre.tool_to_server)
        IN  /\ Len(task[t].out) = Len(inp)
            /\ Len(task[t].calls) = Cardinality(hs)
            /\ \A i \in 1..Len(inp) : i \notin hs => task[t].out[i] = inp[i]

\* the entries of self.sessions whose server exposes a tool called name
Exposing(ss, name) ==
  { i \in 1..Len(ss) : name \in ToolNamesOf(ServerTools(ss[i].sess.path)) }

\* the one of them that was connected last
LastExposing(ss, name) ==
  ss[CHOOSE i \in Exposing(ss, name) : \A j \in Exposing(ss, name) : j <= i].id

Succeeded(outcomes) ==
  { ServerIdAt(k - 1) : k \in { j \in 1..Len(outcomes) : outcomes[j] = "return" } }

\* C31: attach_adapter attempts a connect for every entry of servers, in list
\* order, under the ids server_0, server_1, ...; a failed attempt does not
\* stop the later ones; and when attach_adapter returns, the live servers
\* are exactly those whose own attempt succeeded
C31_LiveAreTheSucceeded ==
  (task[AttachTask].op = "attach" /\ task[AttachTask].pc = "done") =>
     /\ Len(task[AttachTask].outcomes) = Len(task[AttachTask].servers)
     /\ LiveIds(sessions) = Succeeded(task[AttachTask].outcomes)

\* C32: every model request sent through the wrapper carries each tool
\* declaration of the current catalog exactly once, however many earlier
\* requests were made with the same config object
C32_EachDeclarationOnce ==
  \A t \in SeqTasks :
     (task[t].op = "stream" /\ task[t].requests # << >>) =>
        LET adapter_tools == ToolObjects(task[t].pre.tools_cache)
            tools == task[t].requests[1].tools
        IN  \A k \in 1..Len(adapter_tools) :
               Cardinality({ j \in 1..Len(tools) : tools[j] = adapter_tools[k] }) = 1

\* C33: in every state with no operation in flight, after any sequence of
\* connect, disconnect, refresh and cleanup calls, failed ones included, the
\* tool names declared in tools_cache are the keys of tool_to_server
C33_OfferedIsRoutable ==
  Quiescent =>
    { tools_cache[i].name : i \in 1..Len(tools_cache) } = DOMAIN tool_to_server
====
